---- MODULE Spec2Model ----
(***************************************************************************)
(* Model of sql_basics.py: a linear script that opens the SQLite file      *)
(* example.db through Python's sqlite3 module, creates the tables users    *)
(* and orders, seeds them, queries, updates and deletes rows, runs one     *)
(* guarded transaction, creates a trigger and closes the connection.       *)
(*                                                                         *)
(* The store is modelled twice: `committed' is the content of the database *)
(* file, `working' is what the connection sees (committed content plus the *)
(* writes of the open transaction).                                        *)
(***************************************************************************)
EXTENDS Integers, Sequences, FiniteSets, TLC

VARIABLES pc, conn, committed, working, inTxn, err, rowcount,
          rows30, orderCounts, orderCountsHaving,
          initDB, preTxn, steps, lastOp

vars == <<pc, conn, committed, working, inTxn, err, rowcount,
          rows30, orderCounts, orderCountsHaving,
          initDB, preTxn, steps, lastOp>>

(***************************************************************************)
(* Bounds of the initial store content and of the drawn inputs             *)
(***************************************************************************)
MaxInitUsers == 2
MaxInitId == 3
MaxInitOrders == 1
MaxBatch == 2

(***************************************************************************)
(* Literals of the script                                                  *)
(***************************************************************************)
NULL == -1

users_data ==
  << [name |-> "Alice",   age |-> 30, email |-> "alice@example.com",   city |-> "New York"],
     [name |-> "Bob",     age |-> 25, email |-> "bob@example.com",     city |-> "Los Angeles"],
     [name |-> "Charlie", age |-> 35, email |-> "charlie@example.com", city |-> "Chicago"],
     [name |-> "David",   age |-> 40, email |-> "david@example.com",   city |-> "Houston"] >>

orders_data ==
  << [user_id |-> 1, product_name |-> "Laptop",   quantity |-> 1],
     [user_id |-> 1, product_name |-> "Mouse",    quantity |-> 2],
     [user_id |-> 3, product_name |-> "Keyboard", quantity |-> 1],
     [user_id |-> 4, product_name |-> "Monitor",  quantity |-> 2] >>

eve_data == [name |-> "Eve", age |-> 28, email |-> "eve@newdomain.com", city |-> "Miami"]

tablet_order == [user_id |-> 999, product_name |-> "Tablet", quantity |-> 1]

UpdatedAge == 31

AgeThreshold == 30

HavingThreshold == 1

\* sqlite3.connect issues no PRAGMA foreign_keys = ON, so SQLite keeps its
\* default: FOREIGN KEY clauses are parsed but not enforced.
ForeignKeysOn == FALSE

AllObjects == {"users", "orders", "user_orders_view", "update_user_age"}

(***************************************************************************)
(* The engine: pure functions on a store                                   *)
(*   [schema, users, useq, orders, oseq]                                   *)
(* useq / oseq are the sqlite_sequence entries of the AUTOINCREMENT keys.  *)
(***************************************************************************)
MaxOf(S) == IF S = {} THEN 0 ELSE CHOOSE m \in S : \A x \in S : x <= m

FreshDB == [schema |-> {}, users |-> {}, useq |-> 0, orders |-> {}, oseq |-> 0]

\* CREATE TABLE / VIEW / TRIGGER IF NOT EXISTS: no-op when present.
CreateIfNotExists(db, obj) == [db EXCEPT !.schema = @ \cup {obj}]

\* AUTOINCREMENT: one more than the largest key ever issued.
NextUserId(db) == MaxOf({db.useq} \cup {u.id : u \in db.users}) + 1

NextOrderId(db) == MaxOf({db.oseq} \cup {o.order_id : o \in db.orders}) + 1

\* INSERT OR IGNORE variant of InsertUser: a conflicting row is skipped silently.
InsertUser_orIgnore(db, rec) ==
  IF \E u \in db.users : u.email = rec.email
  THEN [db |-> db, err |-> "none"]
  ELSE [db |-> [db EXCEPT !.users = @ \cup {[id |-> NextUserId(db), name |-> rec.name,
                                            age |-> rec.age, email |-> rec.email,
                                            city |-> rec.city]},
                          !.useq = NextUserId(db)],
        err |-> "none"]

\* INSERT INTO users (name, age, email, city): email is UNIQUE.
InsertUser(db, rec) ==
  IF "users" \notin db.schema
  THEN [db |-> db, err |-> "OperationalError"]
  ELSE IF \E u \in db.users : u.email = rec.email
  THEN [db |-> db, err |-> "IntegrityError"]
  ELSE [db |-> [db EXCEPT !.users = @ \cup {[id |-> NextUserId(db), name |-> rec.name,
                                            age |-> rec.age, email |-> rec.email,
                                            city |-> rec.city]},
                          !.useq = NextUserId(db)],
        err |-> "none"]

\* INSERT INTO orders (user_id, product_name, quantity).
InsertOrder(db, rec) ==
  IF "orders" \notin db.schema
  THEN [db |-> db, err |-> "OperationalError"]
  ELSE IF ForeignKeysOn /\ ~ \E u \in db.users : u.id = rec.user_id
  THEN [db |-> db, err |-> "IntegrityError"]
  ELSE [db |-> [db EXCEPT !.orders = @ \cup {[order_id |-> NextOrderId(db),
                                              user_id |-> rec.user_id,
                                              product_name |-> rec.product_name,
                                              quantity |-> rec.quantity]},
                          !.oseq = NextOrderId(db)],
        err |-> "none"]

RECURSIVE InsertUsersFrom(_, _, _)
\* executemany: the statement runs once per record, in order; the first
\* failing record raises and the remaining records are not executed.
InsertUsersFrom(db, batch, i) ==
  IF i > Len(batch) THEN [db |-> db, err |-> "none"]
  ELSE LET r == InsertUser(db, batch[i])
       IN IF r.err # "none" THEN r
          ELSE InsertUsersFrom(r.db, batch, i + 1)

RECURSIVE InsertOrdersFrom(_, _, _)
InsertOrdersFrom(db, batch, i) ==
  IF i > Len(batch) THEN [db |-> db, err |-> "none"]
  ELSE LET r == InsertOrder(db, batch[i])
       IN IF r.err # "none" THEN r
          ELSE InsertOrdersFrom(r.db, batch, i + 1)

RECURSIVE SkipFailingFrom(_, _, _)
SkipFailingFrom(db, batch, i) ==
  IF i > Len(batch) THEN [db |-> db, err |-> "none"]
  ELSE SkipFailingFrom(InsertUser(db, batch[i]).db, batch, i + 1)

\* executemany that carries on after a failing record.
ExecuteManyUsers_skipFailing(db, batch) == SkipFailingFrom(db, batch, 1)

ExecuteManyUsers(db, batch) == InsertUsersFrom(db, batch, 1)

ExecuteManyOrders(db, batch) == InsertOrdersFrom(db, batch, 1)

\* Body of trigger update_user_age, run for one updated row:
\*   UPDATE users SET age = NEW.age WHERE id = OLD.id
\* (recursive_triggers is off, so the inner UPDATE fires nothing).
TriggerBody(rows, old, new) ==
  {IF u.id = old.id THEN [u EXCEPT !.age = new.age] ELSE u : u \in rows}

RECURSIVE FireTriggers(_, _, _)
FireTriggers(rows, matched, newAge) ==
  IF matched = {} THEN rows
  ELSE LET old == CHOOSE u \in matched : TRUE
       IN FireTriggers(TriggerBody(rows, old, [old EXCEPT !.age = newAge]),
                       matched \ {old}, newAge)

\* UPDATE without its WHERE clause.
UpdateUsers_noWhere(db, key, newAge) ==
  [db |-> [db EXCEPT !.users = {[u EXCEPT !.age = newAge] : u \in db.users}],
   err |-> "none", rowcount |-> Cardinality(db.users)]

\* UPDATE users SET age = ? WHERE name = ?
UpdateUsers(db, key, newAge) ==
  LET matched == {u \in db.users : u.name = key}
      updated == {IF u \in matched THEN [u EXCEPT !.age = newAge] ELSE u : u \in db.users}
      after   == IF "update_user_age" \in db.schema
                 THEN FireTriggers(updated, matched, newAge)
                 ELSE updated
  IN [db |-> [db EXCEPT !.users = after], err |-> "none",
      rowcount |-> Cardinality(matched)]

\* DELETE FROM users WHERE name = ?
DeleteUsers(db, key) ==
  LET matched == {u \in db.users : u.name = key}
  IN IF ForeignKeysOn /\ \E u \in matched : \E o \in db.orders : o.user_id = u.id
     THEN [db |-> db, err |-> "IntegrityError", rowcount |-> 0]
     ELSE [db |-> [db EXCEPT !.users = @ \ matched], err |-> "none",
           rowcount |-> Cardinality(matched)]

\* age >= 30 in place of age > 30.
OlderThan_inclusive(db, limit) == {u \in db.users : u.age >= limit}

\* SELECT * FROM users WHERE age > 30
OlderThan(db, limit) == {u \in db.users : u.age > limit}

\* users u LEFT JOIN orders o ON u.id = o.user_id: one row per matching
\* pair, and one row with a NULL order for a user without orders.
LeftJoin(db) ==
  {[u |-> u, order_id |-> o.order_id] : <<u, o>> \in
       {p \in db.users \X db.orders : p[1].id = p[2].user_id}}
  \cup {[u |-> u, order_id |-> NULL] :
       u \in {v \in db.users : ~ \E o \in db.orders : o.user_id = v.id}}

\* users u INNER JOIN orders o ON u.id = o.user_id
InnerJoin(db) ==
  {[u |-> u, order_id |-> o.order_id] : <<u, o>> \in
       {p \in db.users \X db.orders : p[1].id = p[2].user_id}}

\* GROUP BY u.name with COUNT(o.order_id): non-NULL order ids per group.
GroupCount(joined) ==
  {[name |-> n, order_count |->
       Cardinality({j \in joined : j.u.name = n /\ j.order_id # NULL})] :
     n \in {j.u.name : j \in joined}}

\* The grouping over an INNER JOIN.
GroupOrderCounts_innerJoin(db) == GroupCount(InnerJoin(db))

\* SELECT u.name, COUNT(o.order_id) ... LEFT JOIN ... GROUP BY u.name
GroupOrderCounts(db) == GroupCount(LeftJoin(db))

\* ... HAVING COUNT(o.order_id) > 1
GroupOrderCountsHaving(db, min) ==
  {g \in GroupOrderCounts(db) : g.order_count > min}

(***************************************************************************)
(* Content of example.db when the script starts                            *)
(***************************************************************************)
\* Rows the script itself writes: the seeded people, Eve, and Alice after
\* the update of her age.
PersonRows ==
  {users_data[i] : i \in 1..Len(users_data)} \cup {eve_data}
  \cup {[users_data[1] EXCEPT !.age = UpdatedAge]}

InitOrderData == {orders_data[1], tablet_order}

\* users tables of at most MaxInitUsers rows with keys in 1..MaxInitId,
\* distinct keys and distinct emails.
SmallUserSets ==
  UNION {
    {{[id |-> i, name |-> f[i].name, age |-> f[i].age, email |-> f[i].email,
       city |-> f[i].city] : i \in I} :
       f \in {g \in [I -> PersonRows] :
                \A i, j \in I : i # j => g[i].email # g[j].email}} :
    I \in {J \in SUBSET (1..MaxInitId) : Cardinality(J) <= MaxInitUsers}}

SmallOrderSets ==
  UNION {
    {{[order_id |-> i, user_id |-> f[i].user_id, product_name |-> f[i].product_name,
       quantity |-> f[i].quantity] : i \in 1..k} :
       f \in [1..k -> InitOrderData]} :
    k \in 0..MaxInitOrders}

SmallStores ==
  {[schema |-> {"users"}, users |-> U, useq |-> MaxOf({u.id : u \in U}),
    orders |-> {}, oseq |-> 0] : U \in SmallUserSets}
  \cup
  {[schema |-> AllObjects, users |-> p[1], useq |-> MaxOf({u.id : u \in p[1]}),
    orders |-> p[2], oseq |-> MaxOf({o.order_id : o \in p[2]})] :
      p \in SmallUserSets \X SmallOrderSets}

\* Committed content left by a run of the script on a fresh file that
\* stopped after the seeding of users, after the update, after the delete,
\* after the seeding of orders, or ran to its end.
RunSeeded ==
  ExecuteManyUsers(CreateIfNotExists(FreshDB, "users"), users_data).db

RunUpdated == UpdateUsers(RunSeeded, "Alice", UpdatedAge).db

RunDeleted == DeleteUsers(RunUpdated, "Bob").db

RunOrdered ==
  ExecuteManyOrders(CreateIfNotExists(RunDeleted, "orders"), orders_data).db

RunComplete ==
  CreateIfNotExists(
    InsertOrder(InsertUser(CreateIfNotExists(RunOrdered, "user_orders_view"),
                           eve_data).db, tablet_order).db,
    "update_user_age")

EarlierRunStores == {RunSeeded, RunUpdated, RunDeleted, RunOrdered, RunComplete}

InitStores == {FreshDB} \cup EarlierRunStores \cup SmallStores

(***************************************************************************)
(* The script, one action per statement                                    *)
(***************************************************************************)
results == <<rows30, orderCounts, orderCountsHaving>>

NoOp == [op |-> "none", key |-> "", age |-> 0, batch |-> <<>>]

Log(stage) ==
  IF steps # <<>> /\ steps[Len(steps)] = stage THEN steps ELSE Append(steps, stage)

Init ==
  /\ pc = "connect"
  /\ conn = "closed"
  /\ committed \in InitStores
  /\ working = committed
  /\ initDB = committed
  /\ preTxn = committed
  /\ inTxn = FALSE
  /\ err = "none"
  /\ rowcount = -1
  /\ rows30 = {}
  /\ orderCounts = {}
  /\ orderCountsHaving = {}
  /\ steps = <<>>
  /\ lastOp = NoOp

\* An exception nobody catches: the traceback ends the process, the
\* connection is released without commit and its open transaction is lost.
Raise(e) ==
  /\ pc' = "crashed"
  /\ err' = e
  /\ conn' = "closed"
  /\ inTxn' = FALSE
  /\ working' = committed
  /\ UNCHANGED <<committed, rowcount, results, initDB, preTxn, steps, lastOp>>

\* A schema statement: sqlite3 opens no implicit transaction for it, so
\* outside a transaction it commits by itself.
Ddl(obj, stage, next) ==
  IF conn # "open" THEN Raise("ProgrammingError")
  ELSE /\ working' = CreateIfNotExists(working, obj)
       /\ committed' = IF inTxn THEN committed ELSE CreateIfNotExists(working, obj)
       /\ pc' = next
       /\ steps' = Log(stage)
       /\ UNCHANGED <<conn, inTxn, err, rowcount, results, initDB, preTxn, lastOp>>

\* connection.commit()
Commit(stage, next) ==
  IF conn # "open" THEN Raise("ProgrammingError")
  ELSE /\ committed' = working
       /\ inTxn' = FALSE
       /\ pc' = next
       /\ steps' = Log(stage)
       /\ UNCHANGED <<conn, working, err, rowcount, results, initDB, preTxn, lastOp>>

Connect ==
  /\ pc = "connect"
  /\ conn' = "open"
  /\ working' = committed
  /\ pc' = "createUsers"
  /\ steps' = Log("open connection")
  /\ UNCHANGED <<committed, inTxn, err, rowcount, results, initDB, preTxn, lastOp>>

CreateUsersTable == pc = "createUsers" /\ Ddl("users", "define schema", "seedUsers")

SeedUsers ==
  /\ pc = "seedUsers"
  /\ IF conn # "open" THEN Raise("ProgrammingError")
     ELSE LET r == ExecuteManyUsers(working, users_data)
          IN IF r.err # "none" THEN Raise(r.err)
             ELSE /\ working' = r.db
                  /\ inTxn' = TRUE
                  /\ pc' = "commitSeedUsers"
                  /\ steps' = Log("seed data")
                  /\ lastOp' = [NoOp EXCEPT !.op = "seedUsers", !.batch = users_data]
                  /\ UNCHANGED <<conn, committed, err, rowcount, results, initDB, preTxn>>

CommitSeedUsers == pc = "commitSeedUsers" /\ Commit("seed data", "queryUsers")

\* Lines 29-78 only read; the model keeps the result of the age filter.
QueryUsers ==
  /\ pc = "queryUsers"
  /\ IF conn # "open" THEN Raise("ProgrammingError")
     ELSE /\ rows30' = OlderThan(working, AgeThreshold)
          /\ pc' = "updateAlice"
          /\ steps' = Log("run queries")
          /\ UNCHANGED <<conn, committed, working, inTxn, err, rowcount,
                         orderCounts, orderCountsHaving, initDB, preTxn, lastOp>>

UpdateAlice ==
  /\ pc = "updateAlice"
  /\ IF conn # "open" THEN Raise("ProgrammingError")
     ELSE LET r == UpdateUsers(working, "Alice", UpdatedAge)
          IN /\ working' = r.db
             /\ rowcount' = r.rowcount
             /\ inTxn' = TRUE
             /\ pc' = "commitUpdate"
             /\ steps' = Log("mutate data")
             /\ lastOp' = [NoOp EXCEPT !.op = "update", !.key = "Alice", !.age = UpdatedAge]
             /\ UNCHANGED <<conn, committed, err, results, initDB, preTxn>>

CommitUpdate == pc = "commitUpdate" /\ Commit("mutate data", "deleteBob")

DeleteBob ==
  /\ pc = "deleteBob"
  /\ IF conn # "open" THEN Raise("ProgrammingError")
     ELSE LET r == DeleteUsers(working, "Bob")
          IN IF r.err # "none" THEN Raise(r.err)
             ELSE /\ working' = r.db
                  /\ rowcount' = r.rowcount
                  /\ inTxn' = TRUE
                  /\ pc' = "commitDelete"
                  /\ steps' = Log("mutate data")
                  /\ lastOp' = [NoOp EXCEPT !.op = "delete", !.key = "Bob"]
                  /\ UNCHANGED <<conn, committed, err, results, initDB, preTxn>>

CommitDelete == pc = "commitDelete" /\ Commit("mutate data", "createOrders")

CreateOrdersTable == pc = "createOrders" /\ Ddl("orders", "define schema", "seedOrders")

SeedOrders ==
  /\ pc = "seedOrders"
  /\ IF conn # "open" THEN Raise("ProgrammingError")
     ELSE LET r == ExecuteManyOrders(working, orders_data)
          IN IF r.err # "none" THEN Raise(r.err)
             ELSE /\ working' = r.db
                  /\ inTxn' = TRUE
                  /\ pc' = "commitSeedOrders"
                  /\ steps' = Log("seed data")
                  /\ UNCHANGED <<conn, committed, err, rowcount, results, initDB,
                                 preTxn, lastOp>>

CommitSeedOrders == pc = "commitSeedOrders" /\ Commit("seed data", "createView")

CreateView == pc = "createView" /\ Ddl("user_orders_view", "define schema", "groupQueries")

\* Lines 140-193 only read; the model keeps the two grouped counts.
GroupQueries ==
  /\ pc = "groupQueries"
  /\ IF conn # "open" THEN Raise("ProgrammingError")
     ELSE /\ orderCounts' = GroupOrderCounts(working)
          /\ orderCountsHaving' = GroupOrderCountsHaving(working, HavingThreshold)
          /\ pc' = "txnBegin"
          /\ steps' = Log("run queries")
          /\ UNCHANGED <<conn, committed, working, inTxn, err, rowcount, rows30,
                         initDB, preTxn, lastOp>>

(***************************************************************************)
(* The guarded transaction, lines 199-235                                  *)
(***************************************************************************)
\* connection.execute('BEGIN'); an error here is caught by the handlers.
TxnBegin ==
  /\ pc = "txnBegin"
  /\ IF conn # "open" THEN Raise("ProgrammingError")
     ELSE /\ preTxn' = committed
          /\ steps' = Log("run a guarded transaction")
          /\ IF inTxn
             THEN /\ err' = "OperationalError"
                  /\ pc' = "txnRollback"
                  /\ UNCHANGED inTxn
             ELSE /\ inTxn' = TRUE
                  /\ pc' = "txnInsertUser"
                  /\ UNCHANGED err
          /\ UNCHANGED <<conn, committed, working, rowcount, results, initDB, lastOp>>

\* The insert of Eve written as INSERT OR IGNORE.
TxnInsertUser_orIgnore ==
  /\ pc = "txnInsertUser"
  /\ working' = InsertUser_orIgnore(working, eve_data).db
  /\ pc' = "txnInsertOrder"
  /\ UNCHANGED <<conn, committed, inTxn, err, rowcount, results, initDB, preTxn,
                 steps, lastOp>>

TxnInsertUser ==
  /\ pc = "txnInsertUser"
  /\ LET r == InsertUser(working, eve_data)
     IN IF r.err # "none"
        THEN /\ err' = r.err
             /\ pc' = "txnRollback"
             /\ UNCHANGED working
        ELSE /\ working' = r.db
             /\ pc' = "txnInsertOrder"
             /\ UNCHANGED err
  /\ UNCHANGED <<conn, committed, inTxn, rowcount, results, initDB, preTxn, steps, lastOp>>

TxnInsertOrder ==
  /\ pc = "txnInsertOrder"
  /\ LET r == InsertOrder(working, tablet_order)
     IN IF r.err # "none"
        THEN /\ err' = r.err
             /\ pc' = "txnRollback"
             /\ UNCHANGED working
        ELSE /\ working' = r.db
             /\ pc' = "txnCommit"
             /\ UNCHANGED err
  /\ UNCHANGED <<conn, committed, inTxn, rowcount, results, initDB, preTxn, steps, lastOp>>

TxnCommit ==
  /\ pc = "txnCommit"
  /\ committed' = working
  /\ inTxn' = FALSE
  /\ pc' = "txnFinally"
  /\ UNCHANGED <<conn, working, err, rowcount, results, initDB, preTxn, steps, lastOp>>

\* A handler that prints the error and does not roll back.
TxnRollback_printOnly ==
  /\ pc = "txnRollback"
  /\ pc' = "txnFinally"
  /\ UNCHANGED <<conn, committed, working, inTxn, err, rowcount, results, initDB,
                 preTxn, steps, lastOp>>

\* Both except clauses: connection.rollback() and a printed message.
TxnRollback ==
  /\ pc = "txnRollback"
  /\ working' = committed
  /\ inTxn' = FALSE
  /\ pc' = "txnFinally"
  /\ UNCHANGED <<conn, committed, err, rowcount, results, initDB, preTxn, steps, lastOp>>

\* finally: two SELECTs, read only.
TxnFinally ==
  /\ pc = "txnFinally"
  /\ pc' = "createTrigger"
  /\ UNCHANGED <<conn, committed, working, inTxn, err, rowcount, results, initDB,
                 preTxn, steps, lastOp>>

CreateTrigger == pc = "createTrigger" /\ Ddl("update_user_age", "define a trigger", "close")

\* The close statements placed before the creation of the trigger.
CloseConnection_early ==
  /\ pc = "createTrigger"
  /\ conn = "open"
  /\ conn' = "closed"
  /\ working' = committed
  /\ inTxn' = FALSE
  /\ UNCHANGED <<pc, committed, err, rowcount, results, initDB, preTxn, steps, lastOp>>

\* cursor.close(); connection.close(): an open transaction is discarded.
CloseConnection ==
  /\ pc = "close"
  /\ conn' = "closed"
  /\ working' = committed
  /\ inTxn' = FALSE
  /\ pc' = "done"
  /\ steps' = Log("close connection")
  /\ UNCHANGED <<committed, err, rowcount, results, initDB, preTxn, lastOp>>

Next ==
  \/ Connect
  \/ CreateUsersTable
  \/ SeedUsers
  \/ CommitSeedUsers
  \/ QueryUsers
  \/ UpdateAlice
  \/ CommitUpdate
  \/ DeleteBob
  \/ CommitDelete
  \/ CreateOrdersTable
  \/ SeedOrders
  \/ CommitSeedOrders
  \/ CreateView
  \/ GroupQueries
  \/ TxnBegin
  \/ TxnInsertUser
  \/ TxnInsertOrder
  \/ TxnCommit
  \/ TxnRollback
  \/ TxnFinally
  \/ CreateTrigger
  \/ CloseConnection

Spec == Init /\ [][Next]_vars

(***************************************************************************)
(* The three write operations on drawn inputs: each action is the          *)
(* statement followed by its commit, as in lines 26-27, 82-83 and 86-87.   *)
(***************************************************************************)
KeyNames == {r.name : r \in PersonRows} \cup {"Zoe"}

BatchRows == {users_data[1], users_data[2], eve_data}

Batches == UNION {[1..n -> BatchRows] : n \in 1..MaxBatch}

InitOps ==
  /\ pc = "ops"
  /\ conn = "open"
  /\ committed \in {db \in InitStores : "users" \in db.schema}
  /\ working = committed
  /\ initDB = committed
  /\ preTxn = committed
  /\ inTxn = FALSE
  /\ err = "none"
  /\ rowcount = -1
  /\ rows30 = {}
  /\ orderCounts = {}
  /\ orderCountsHaving = {}
  /\ steps = <<>>
  /\ lastOp = NoOp

OpSeedUsers ==
  /\ pc = "ops"
  /\ \E batch \in Batches :
       LET r == ExecuteManyUsers(working, batch)
       IN /\ lastOp' = [NoOp EXCEPT !.op = "seedUsers", !.batch = batch]
          /\ IF r.err # "none"
             THEN /\ pc' = "crashed"
                  /\ err' = r.err
                  /\ conn' = "closed"
                  /\ working' = committed
                  /\ UNCHANGED committed
             ELSE /\ pc' = "opsDone"
                  /\ working' = r.db
                  /\ committed' = r.db
                  /\ UNCHANGED <<err, conn>>
  /\ UNCHANGED <<inTxn, rowcount, results, initDB, preTxn, steps>>

OpUpdateUser ==
  /\ pc = "ops"
  /\ \E key \in KeyNames :
       LET r == UpdateUsers(working, key, UpdatedAge)
       IN /\ lastOp' = [NoOp EXCEPT !.op = "update", !.key = key, !.age = UpdatedAge]
          /\ working' = r.db
          /\ committed' = r.db
          /\ rowcount' = r.rowcount
          /\ err' = r.err
  /\ pc' = "opsDone"
  /\ UNCHANGED <<conn, inTxn, results, initDB, preTxn, steps>>

OpDeleteUser ==
  /\ pc = "ops"
  /\ \E key \in KeyNames :
       LET r == DeleteUsers(working, key)
       IN /\ lastOp' = [NoOp EXCEPT !.op = "delete", !.key = key]
          /\ working' = r.db
          /\ committed' = r.db
          /\ rowcount' = r.rowcount
          /\ err' = r.err
  /\ pc' = "opsDone"
  /\ UNCHANGED <<conn, inTxn, results, initDB, preTxn, steps>>

NextOps == OpSeedUsers \/ OpUpdateUser \/ OpDeleteUser

SpecOps == InitOps /\ [][NextOps]_vars

(***************************************************************************)
(* Properties                                                              *)
(***************************************************************************)
AfterTxn == pc \in {"txnFinally", "createTrigger", "close", "done"}

Terminal == {"done", "crashed"}

IsEveRow(u) ==
  /\ u.name = eve_data.name /\ u.age = eve_data.age
  /\ u.email = eve_data.email /\ u.city = eve_data.city

IsTabletOrder(o) ==
  /\ o.user_id = tablet_order.user_id /\ o.product_name = tablet_order.product_name
  /\ o.quantity = tablet_order.quantity

OrderCountOf(db, u) == Cardinality({o \in db.orders : o.user_id = u.id})

ReferencesHold(db) == \A o \in db.orders : \E u \in db.users : u.id = o.user_id

\* C1: once the transaction block has ended, the number of users and the
\* number of orders in the store equal their values just before BEGIN: the
\* insert of Eve and the insert of the order for user 999 are both undone.
C1_TransactionRollsBackBoth ==
  AfterTxn =>
    /\ Cardinality(committed.users) = Cardinality(preTxn.users)
    /\ Cardinality(committed.orders) = Cardinality(preTxn.orders)

\* C2: once the transaction block has ended, the store holds, beyond what
\* it held before BEGIN, either exactly the new user row and the new order
\* row, or nothing; never exactly one of the two.
C2_AllOrNothing ==
  AfterTxn =>
    \/ /\ committed.users = preTxn.users
       /\ committed.orders = preTxn.orders
    \/ /\ preTxn.users \subseteq committed.users
       /\ preTxn.orders \subseteq committed.orders
       /\ Cardinality(committed.users \ preTxn.users) = 1
       /\ Cardinality(committed.orders \ preTxn.orders) = 1
       /\ \A u \in committed.users \ preTxn.users : IsEveRow(u)
       /\ \A o \in committed.orders \ preTxn.orders : IsTabletOrder(o)

C2_Witness ==
  /\ pc = "txnFinally"
  /\ err = "IntegrityError"
  /\ committed.users = preTxn.users
  /\ committed.orders = preTxn.orders
  /\ \E u \in committed.users : IsEveRow(u)

\* A record of the batch whose email is already in the store or is repeated
\* earlier in the batch.
Offending(db, batch, i) ==
  \/ \E u \in db.users : u.email = batch[i].email
  \/ \E j \in 1..(i - 1) : batch[j].email = batch[i].email

\* C3: a bulk insert of users whose batch holds a record with an email that
\* is already stored, or repeated earlier in the batch, fails with an
\* integrity error and commits none of its rows, wherever that record is.
C3_FailedBatchCommitsNothing ==
  (lastOp.op = "seedUsers"
     /\ \E i \in 1..Len(lastOp.batch) : Offending(initDB, lastOp.batch, i))
  => /\ err = "IntegrityError"
     /\ pc = "crashed"
     /\ committed = initDB

C3_Witness ==
  /\ lastOp.op = "seedUsers"
  /\ Len(lastOp.batch) = 2
  /\ ~ Offending(initDB, lastOp.batch, 1)
  /\ Offending(initDB, lastOp.batch, 2)
  /\ pc = "crashed"
  /\ committed.users = initDB.users

\* C4: an update or delete by a name that matches no row reports 0 affected
\* rows, raises nothing and leaves users and orders as they were; when the
\* name matches, the matching rows get the new age (update) or disappear
\* (delete), the count is the number of matching rows, and every other row
\* and every order is unchanged.
C4_UpdateDeleteFrame ==
  (pc = "opsDone" /\ lastOp.op \in {"update", "delete"}) =>
    LET matched == {u \in initDB.users : u.name = lastOp.key}
        others  == initDB.users \ matched
    IN /\ err = "none"
       /\ rowcount = Cardinality(matched)
       /\ committed.orders = initDB.orders
       /\ committed.schema = initDB.schema
       /\ (matched = {} => rowcount = 0 /\ committed = initDB)
       /\ lastOp.op = "update" =>
            committed.users =
              others \cup {[u EXCEPT !.age = lastOp.age] : u \in matched}
       /\ lastOp.op = "delete" => committed.users = others

C4_Witness ==
  /\ pc = "opsDone"
  /\ lastOp.op = "update"
  /\ initDB.users # {}
  /\ \A u \in initDB.users : u.name # lastOp.key /\ u.age # lastOp.age
  /\ rowcount = 0
  /\ committed = initDB

C6_OlderThan30Exact ==
  pc = "updateAlice" =>
    /\ \A u \in rows30 : u \in working.users /\ u.age > 30
    /\ \A u \in working.users : u.age > 30 => u \in rows30
    /\ initDB.users = {} =>
         /\ {u.age : u \in rows30} = {35, 40}
         /\ Cardinality(rows30) = 2

C6_Witness ==
  /\ pc = "updateAlice"
  /\ initDB.users = {}
  /\ {u.age : u \in working.users} = {30, 25, 35, 40}
  /\ {u.name : u \in rows30} = {"Charlie", "David"}

\* C7: the handle only moves closed -> open -> closed: the only step taken
\* while it is closed is the opening connect, connect never runs again, and
\* once the handle is closed again the run is over, so no statement is
\* issued after close.
C7_HandleLifecycle ==
  [][ /\ conn = "closed" => (pc = "connect" /\ conn' = "open")
      /\ conn' = "closed" => (conn = "open" /\ pc' \in Terminal)
      /\ pc' # "connect"
      /\ err' # "ProgrammingError" ]_vars

C7_Witness ==
  /\ pc = "done"
  /\ conn = "closed"
  /\ steps[1] = "open connection"
  /\ steps[Len(steps)] = "close connection"

\* C8: when the close statement is reached no transaction is open and the
\* connection holds no write that the file does not hold.
C8_NothingPendingAtClose ==
  pc = "close" => (~ inTxn /\ working = committed)

C8_Witness ==
  /\ pc = "close"
  /\ err = "IntegrityError"
  /\ ~ inTxn
  /\ "update_user_age" \in committed.schema

StageOrder ==
  << "open connection", "define schema", "seed data", "run queries", "mutate data",
     "run a guarded transaction", "define a trigger", "close connection" >>

RECURSIVE FirstOccurrences(_)
FirstOccurrences(s) ==
  IF s = <<>> THEN <<>>
  ELSE LET front == FirstOccurrences(SubSeq(s, 1, Len(s) - 1))
           last  == s[Len(s)]
       IN IF \E i \in 1..Len(front) : front[i] = last THEN front
          ELSE Append(front, last)

\* C9: every run, whatever example.db held at the start, ends having gone
\* through the stages open, schema, seed, queries, mutate, transaction,
\* trigger, close in that order: it stops nowhere before the close.
C9_RunReachesClose ==
  pc \in Terminal => FirstOccurrences(steps) = StageOrder

\* C10: in every committed content the script produces from a store whose
\* references hold, each order refers to the key of a stored user.
C10_ReferencesHold ==
  ReferencesHold(initDB) => ReferencesHold(committed)

====
